---------------------------- MODULE Spec2Model ----------------------------
(***************************************************************************)
(* State-machine model of services/monitor: src/src/monitor/monitor.ts.    *)
(*                                                                         *)
(* One ChainMonitor per monitored chain polls getBlock for increasing      *)
(* heights with an adaptive pause, dispatches every contract-creation      *)
(* transaction to processBytecode (bounded getCode retries) and hands      *)
(* decoded metadata to the source fetcher and the injector.  Monitor fans  *)
(* start()/stop() out over its chain monitors.                             *)
(*                                                                         *)
(* Everything asynchronous is a task in the state: a pending promise of a  *)
(* provider call ("call"), a pending setTimeout ("timer"), a pending       *)
(* getBlockNumber of start() ("lookup").  Node runs one callback at a      *)
(* time, so every callback is one atomic action.  Timers and provider      *)
(* answers arrive in any order.                                            *)
(***************************************************************************)
EXTENDS Integers, Sequences, FiniteSets

----------------------------------------------------------------------------
(* Bounds of the model.                                                    *)

\* start() calls per chain monitor
MaxStarts == 1
\* candidates with a task pending at a time
MaxCands == 1
\* highest block height the provider serves a block for
MaxHeight == 101
\* "no block yet" answers in a row
MaxMisses == 3

----------------------------------------------------------------------------
(* Numbers.  getBlockPause is a JavaScript double; with an integer         *)
(* BLOCK_PAUSE_FACTOR that is a power of two every product and quotient is *)
(* exact, so the pause is modelled as an exact fraction <<num, den>>.      *)

RECURSIVE Gcd(_, _)
Gcd(a, b) == IF b = 0 THEN a ELSE Gcd(b, a % b)

Rat(n, d) == LET g == Gcd(n, d) IN <<n \div g, d \div g>>
RatOf(k) == <<k, 1>>
RatLeq(a, b) == a[1] * b[2] <= b[1] * a[2]
RatLt(a, b) == a[1] * b[2] < b[1] * a[2]
\* x *= k   and   x /= k
RatTimes(a, k) == Rat(a[1] * k, a[2])
RatOver(a, k) == Rat(a[1], a[2] * k)
\* Math.min / Math.max
MathMin(a, b) == IF RatLeq(a, b) THEN a ELSE b
MathMax(a, b) == IF RatLeq(b, a) THEN a ELSE b

----------------------------------------------------------------------------
(* parseInt(string) without radix, on strings given as character           *)
(* sequences: leading white space is skipped, an optional sign is read,    *)
(* then the longest prefix of decimal digits; anything after it is         *)
(* ignored; no digit at all gives NaN.  (A "0x" prefix would switch to     *)
(* base 16; no such string is drawn below.)                                *)

Digits == <<"0", "1", "2", "3", "4", "5", "6", "7", "8", "9">>
IsDigit(ch) == \E i \in 1..10 : Digits[i] = ch
DigitVal(ch) == (CHOOSE i \in 1..10 : Digits[i] = ch) - 1

RECURSIVE SkipSpace(_)
SkipSpace(s) == IF s # <<>> /\ Head(s) = " " THEN SkipSpace(Tail(s)) ELSE s

RECURSIVE DigitPrefix(_)
DigitPrefix(s) ==
    IF s # <<>> /\ IsDigit(Head(s)) THEN <<Head(s)>> \o DigitPrefix(Tail(s)) ELSE <<>>

RECURSIVE Horner(_, _)
Horner(acc, s) == IF s = <<>> THEN acc ELSE Horner(acc * 10 + DigitVal(Head(s)), Tail(s))

parseInt(str) ==
    LET s    == SkipSpace(str)
        neg  == s # <<>> /\ Head(s) = "-"
        body == IF s # <<>> /\ Head(s) \in {"-", "+"} THEN Tail(s) ELSE s
        ds   == DigitPrefix(body)
    IN  IF ds = <<>> THEN [nan |-> TRUE, v |-> 0]
        ELSE [nan |-> FALSE, v |-> IF neg THEN 0 - Horner(0, ds) ELSE Horner(0, ds)]


----------------------------------------------------------------------------
(* Values.                                                                 *)

Chains == {"1", "5"}
NoHeight == 0 - 1
NoDelay == RatOf(0)
NoAddress == <<>>
Undefined == [def |-> FALSE, s |-> <<>>]
Str(s) == [def |-> TRUE, s |-> s]

\* process.env.MONITOR_START_<chainId>: unset, or "100"
RawStarts == {Undefined, Str(<<"1", "0", "0">>)}
\* what getBlockNumber() answers
HeadHeights == {101}

\* BLOCK_PAUSE_FACTOR, BLOCK_PAUSE_UPPER_LIMIT, BLOCK_PAUSE_LOWER_LIMIT,
\* GET_BLOCK_PAUSE as set in the environment (parseInt(..) || default)
Factors == {2}
UpperLimits == {8}
LowerLimits == {2, 4}
InitialPauses == {1, 4, 32}
\* GET_BYTECODE_RETRY_PAUSE: the default
GetBytecodeRetryPause == 5000
\* INITIAL_GET_BYTECODE_TRIES: the default, or a negative number from the
\* environment (parseInt(..) || 3 is never 0)
InitialGetBytecodeTries == 3
TriesValues == {0 - 1, InitialGetBytecodeTries}

\* Transactions: recipient (null and "" are both falsy), sender, nonce.
Null == "null"
TxCall == [to |-> "0xR", from |-> "0xS", nonce |-> 0]
TxCreate0 == [to |-> Null, from |-> "0xS", nonce |-> 0]
TxCreate1 == [to |-> "", from |-> "0xS", nonce |-> 1]
\* a creation whose sender is no valid address: getContractAddress throws
TxBad == [to |-> Null, from |-> "bad", nonce |-> 0]
Txs == {TxCall, TxCreate0, TxCreate1, TxBad}

\* block.transactions of the blocks the provider may return
Blocks ==
    {<<>>, <<TxCall>>, <<TxCreate0>>, <<TxCreate1>>, <<TxBad>>,
     <<TxCall, TxCreate1>>, <<TxCreate0, TxCreate1>>, <<TxCreate1, TxCreate0>>,
     <<TxCreate0, TxBad>>, <<TxBad, TxCreate0>>, <<TxCreate0, TxCall, TxCreate0>>}

\* what a getBlock promise settles with
BlockOutcomes ==
    {[kind |-> "null", txs |-> <<>>], [kind |-> "reject", txs |-> <<>>]}
        \cup {[kind |-> "block", txs |-> b] : b \in Blocks}

\* what a getCode promise settles with: "0x"; a rejection; a value
\* hexToBytes throws on; bytecode without decodable metadata; bytecode with it
CodeOutcomes == {"empty", "reject", "badhex", "nometa", "valid"}

----------------------------------------------------------------------------
(* State.                                                                  *)

VARIABLES
    env,            \* the tunables read from process.env (never change)
    lim,            \* the bounds this run is explored under (never change)
    chainMonitors,  \* Monitor.chainMonitors, as the set of their chain ids
    running,        \* ChainMonitor.running
    getBlockPause,  \* ChainMonitor.getBlockPause
    polls,          \* per monitor: pending lookups, getBlock calls, poll timers
    cands,          \* the candidates with a task pending, in dispatch order
    starts,         \* start() calls made on each monitor
    stopped,        \* stop() was called on the monitor
    advanced,       \* highest height the monitor has advanced past
    misses,         \* "no block yet" answers in a row, the pause they began
                    \* from, and whether one was seen since the last error
    ev              \* the step taken last

vars == <<env, lim, chainMonitors, running, getBlockPause, polls, cands,
          starts, stopped, advanced, misses, ev>>

NoEvent ==
    [op |-> "init", c |-> "-", id |-> 0, out |-> "-", h |-> NoHeight,
     next |-> NoHeight, made |-> 0, calls |-> 0, pause |-> NoDelay,
     prev |-> NoHeight, txs |-> <<>>]

\* op: the step; c: its monitor; id: its poll loop or candidate; out: what
\* the provider answered; h, next: the height asked for and the height asked
\* for next; made, calls: candidates dispatched and getCode calls sent by the
\* step (for a getCode answer: assemble() calls made and retry timers set);
\* pause, prev: getBlockPause and advanced as they were before the step;
\* txs: the transactions of the block a getBlock answer brought
Event(op, c, id, out, h, next, made, calls) ==
    [op |-> op, c |-> c, id |-> id, out |-> out, h |-> h, next |-> next,
     made |-> made, calls |-> calls,
     pause |-> IF c \in chainMonitors THEN getBlockPause[c] ELSE NoDelay,
     prev |-> IF c \in chainMonitors THEN advanced[c] ELSE NoHeight,
     txs |-> <<>>]

Envs ==
    [factor : Factors, upper : UpperLimits, lower : LowerLimits,
     pause : InitialPauses, retryPause : {GetBytecodeRetryPause},
     tries : TriesValues, start : [Chains -> RawStarts]]

\* constructor (lines 37-47) and the field declarations: running is not
\* initialised (undefined, falsy)
InitMonitors(cs) ==
    /\ chainMonitors = cs
    /\ running = [c \in cs |-> FALSE]
    /\ getBlockPause = [c \in cs |-> RatOf(env.pause)]
    /\ polls = [c \in cs |-> {}]
    /\ cands = <<>>
    /\ starts = [c \in cs |-> 0]
    /\ stopped = [c \in cs |-> FALSE]
    /\ advanced = [c \in cs |-> NoHeight]
    /\ misses = [c \in cs |-> [n |-> 0, from |-> RatOf(env.pause), seen |-> FALSE]]
    /\ ev = NoEvent

----------------------------------------------------------------------------
(* Helpers of ChainMonitor.                                                *)

\* function createsContract (lines 18-20): !tx.to
createsContract(tx) == tx.to \in {Null, ""}

\* ethers.utils.getContractAddress(tx) (line 82): a function of sender and
\* nonce; it throws when the sender is no address
getContractAddressThrows(tx) == tx.from = "bad"
getContractAddress(tx) == <<tx.from, tx.nonce>>

\* Mutant of mySetTimeout: the running flag is not looked at.
mySetTimeoutUnguarded(c) == TRUE

\* mySetTimeout (lines 132-136): the timer is set only while running
mySetTimeout(c) == running[c]

\* processBlock(blockNumber) up to the getBlock call (lines 65-66)
processBlock(id, blockNumber) ==
    [id |-> id, st |-> "call", h |-> blockNumber, d |-> NoDelay]

\* the pause after "no block" (lines 68-69) and after a block (lines 76-77)
PauseAfterMiss(c) ==
    MathMin(RatTimes(getBlockPause[c], env.factor), RatOf(env.upper))
PauseAfterBlock(c) ==
    MathMax(RatOver(getBlockPause[c], env.factor), RatOf(env.lower))

\* Mutant of PauseAfterError: a failed call backs off like a miss.
PauseAfterErrorGrown(c) == PauseAfterMiss(c)

\* the pause after a rejected getBlock (lines 89-90): the catch only logs
PauseAfterError(c) == getBlockPause[c]

\* Mutant of NextBlockNumber: the height moves on whenever a block came.
NextBlockNumberOfBlock(h, found, threw) == IF found THEN h + 1 ELSE h

\* the height the finally of line 92 reschedules: blockNumber++ (line 87)
\* is reached only when the scan ran to its end
NextBlockNumber(h, found, threw) == IF found /\ ~threw THEN h + 1 ELSE h

\* A candidate as it is dispatched from the scan (line 83), before
\* processBytecode has looked at it: r0 is the retriesLeft it is handed,
\* attempts counts its getCode calls, assembles and injects the calls made
\* for it to the source fetcher and the injector, code tells that getCode
\* has answered with bytecode other than "0x".
NewCandidate(c, tx) ==
    [c |-> c, tx |-> tx, address |-> getContractAddress(tx), r0 |-> env.tries,
     st |-> "new", left |-> env.tries, attempts |-> 0, d |-> 0,
     assembles |-> 0, injects |-> 0, injAddress |-> NoAddress, injChain |-> "-",
     code |-> FALSE]

\* Mutant of processBytecode: the test is retriesLeft < 0, one attempt more.
processBytecodeOneMore(k, retriesLeft) ==
    IF retriesLeft < 0
        THEN [k EXCEPT !.st = "dropped", !.d = 0]
        ELSE [k EXCEPT !.st = "call", !.left = retriesLeft - 1,
                       !.attempts = @ + 1, !.d = 0]

\* processBytecode(address, retriesLeft) up to the getCode call
\* (lines 96-101): nothing is fetched once the retries are used up
processBytecode(k, retriesLeft) ==
    IF retriesLeft <= 0
        THEN [k EXCEPT !.st = "dropped", !.d = 0]
        ELSE [k EXCEPT !.st = "call", !.left = retriesLeft - 1,
                       !.attempts = @ + 1, !.d = 0]

\* the retry of lines 104 and 128: mySetTimeout(processBytecode, pause, ..)
RetryLater(k) ==
    IF mySetTimeout(k.c) THEN [k EXCEPT !.st = "timer", !.d = env.retryPause]
    ELSE [k EXCEPT !.st = "stopped"]

\* a candidate with a task pending; the others are gone from the program
IsLive(k) == k.st \in {"call", "timer", "resolving", "injecting"}

\* the for loop of lines 80-85 over the transactions left, `acc` being the
\* candidates so far: it ends at the first exception
RECURSIVE ScanTransactions(_, _, _, _)
ScanTransactions(c, txs, acc, made) ==
    IF txs = <<>> THEN [cands |-> acc, threw |-> FALSE, made |-> made]
    ELSE LET tx == Head(txs) IN
         IF ~createsContract(tx) THEN ScanTransactions(c, Tail(txs), acc, made)
         ELSE IF getContractAddressThrows(tx)
                  THEN [cands |-> acc, threw |-> TRUE, made |-> made]
         ELSE ScanTransactions(c, Tail(txs),
                  Append(acc, processBytecode(NewCandidate(c, tx), env.tries)),
                  made + 1)

Poll(c, id) == CHOOSE p \in polls[c] : p.id = id
HasPoll(c, id, st) == \E p \in polls[c] : p.id = id /\ p.st = st

----------------------------------------------------------------------------
(* ChainMonitor.start and stop.                                            *)

\* Mutant of StartPolls: the configured start height is ignored and the
\* chain head is always asked for.
StartPollsFromHead(c) ==
    polls[c] \cup {[id |-> starts[c] + 1, st |-> "lookup", h |-> NoHeight, d |-> NoDelay]}

\* start (lines 49-56) up to its first await: with MONITOR_START_<chainId>
\* set the first getBlock is sent at once, else getBlockNumber is awaited
StartPolls(c) ==
    LET id == starts[c] + 1
        rawStartBlock == env.start[c]
    IN  polls[c] \cup
          {IF rawStartBlock.def
               THEN processBlock(id, parseInt(rawStartBlock.s).v)
               ELSE [id |-> id, st |-> "lookup", h |-> NoHeight, d |-> NoDelay]}

Start(c) ==
    /\ starts[c] < lim.starts
    /\ running' = [running EXCEPT ![c] = TRUE]
    /\ polls' = [polls EXCEPT ![c] = StartPolls(c)]
    /\ starts' = [starts EXCEPT ![c] = @ + 1]
    /\ ev' = Event("start", c, starts[c] + 1, "-", NoHeight, NoHeight, 0, 0)
    /\ UNCHANGED <<env, lim, misses, chainMonitors, getBlockPause, cands, stopped, advanced>>

\* Mutant of Stop: the running flag is shared by all chain monitors.
StopEvery(c) ==
    /\ running' = [d \in chainMonitors |-> FALSE]
    /\ stopped' = [stopped EXCEPT ![c] = TRUE]
    /\ ev' = Event("stop", c, 0, "-", NoHeight, NoHeight, 0, 0)
    /\ UNCHANGED <<env, lim, misses, chainMonitors, getBlockPause, polls, cands, starts, advanced>>

\* stop (lines 61-63)
Stop(c) ==
    /\ running' = [running EXCEPT ![c] = FALSE]
    /\ stopped' = [stopped EXCEPT ![c] = TRUE]
    /\ ev' = Event("stop", c, 0, "-", NoHeight, NoHeight, 0, 0)
    /\ UNCHANGED <<env, lim, misses, chainMonitors, getBlockPause, polls, cands, starts, advanced>>

\* getBlockNumber answers (line 53): start goes on with processBlock (line 54)
LookupDone(c, id, head) ==
    /\ HasPoll(c, id, "lookup")
    /\ polls' = [polls EXCEPT ![c] = (@ \ {Poll(c, id)}) \cup {processBlock(id, head)}]
    /\ ev' = Event("lookup", c, id, "ok", head, NoHeight, 0, 0)
    /\ UNCHANGED <<env, lim, misses, chainMonitors, running, getBlockPause, cands,
                   starts, stopped, advanced>>

\* getBlockNumber rejects: the await throws and start() ends rejected
LookupFail(c, id) ==
    /\ HasPoll(c, id, "lookup")
    /\ polls' = [polls EXCEPT ![c] = @ \ {Poll(c, id)}]
    /\ ev' = Event("lookup", c, id, "reject", NoHeight, NoHeight, 0, 0)
    /\ UNCHANGED <<env, lim, misses, chainMonitors, running, getBlockPause, cands,
                   starts, stopped, advanced>>

----------------------------------------------------------------------------
(* The poll loop.                                                          *)

\* the getBlock promise settles (lines 66-93): then, catch, finally
BlockResult(c, id, out) ==
    /\ HasPoll(c, id, "call")
    /\ LET p     == Poll(c, id)
           found == out.kind = "block"
           scan  == ScanTransactions(c, out.txs, cands, 0)
           live  == SelectSeq(scan.cands, IsLive)
           pause == CASE out.kind = "null" -> PauseAfterMiss(c)
                      [] out.kind = "block" -> PauseAfterBlock(c)
                      [] OTHER -> PauseAfterError(c)
           blockNumber == NextBlockNumber(p.h, found, scan.threw)
           timer == [id |-> id, st |-> "timer", h |-> blockNumber, d |-> pause]
       IN  /\ found => (p.h < lim.height /\ Len(live) <= lim.cands)
           /\ out.kind = "null" => misses[c].n < lim.misses
           /\ getBlockPause' = [getBlockPause EXCEPT ![c] = pause]
           /\ misses' = [misses EXCEPT ![c] =
                            IF out.kind = "null"
                                THEN [@ EXCEPT !.n = @ + 1, !.seen = TRUE]
                            ELSE [n |-> 0, from |-> pause,
                                  seen |-> found /\ @.seen]]
           /\ cands' = IF found THEN live ELSE cands
           /\ polls' = [polls EXCEPT ![c] =
                           IF mySetTimeout(c) THEN (@ \ {p}) \cup {timer} ELSE @ \ {p}]
           /\ advanced' = [advanced EXCEPT ![c] =
                              IF found /\ ~scan.threw /\ p.h > @ THEN p.h ELSE @]
           /\ ev' = [Event("getBlock", c, id,
                           IF found /\ scan.threw THEN "threw" ELSE out.kind,
                           p.h, blockNumber,
                           IF found THEN scan.made ELSE 0,
                           IF found THEN Len(live) - Len(cands) ELSE 0)
                         EXCEPT !.txs = out.txs]
    /\ UNCHANGED <<env, lim, chainMonitors, running, starts, stopped>>

\* a poll timer fires: processBlock(blockNumber)
PollTimer(c, id) ==
    /\ HasPoll(c, id, "timer")
    /\ LET p == Poll(c, id) IN
       /\ polls' = [polls EXCEPT ![c] = (@ \ {p}) \cup {processBlock(id, p.h)}]
       /\ ev' = Event("pollTimer", c, id, "-", p.h, NoHeight, 0, 0)
    /\ UNCHANGED <<env, lim, misses, chainMonitors, running, getBlockPause, cands,
                   starts, stopped, advanced>>

----------------------------------------------------------------------------
(* Bytecode retrieval.                                                     *)

\* The source fetcher (./source-fetcher, not part of this file) calls the
\* callback given to assemble() at most once, at some later time or never.
SourceFetcherDelivers(k) == k.st = "resolving"

\* Mutant of AfterGetCode: after assemble() the retry is scheduled as well.
AfterGetCodeRetryAlways(k, out) ==
    CASE out = "nometa" -> [k EXCEPT !.st = "abandoned"]
      [] out = "valid" -> [RetryLater(k) EXCEPT !.assembles = @ + 1]
      [] OTHER -> RetryLater(k)

\* Mutant of AfterGetCode: bytecode without metadata is fetched again later.
AfterGetCodeRetryNoMeta(k, out) ==
    CASE out = "valid" -> [k EXCEPT !.st = "resolving", !.assembles = @ + 1]
      [] OTHER -> RetryLater(k)

\* the then callback of getCode (lines 101-125) and its catch (126-129)
AfterGetCode(k, out) ==
    CASE out = "empty" -> RetryLater(k)
      [] out = "reject" -> RetryLater(k)
      \* hexToBytes (line 108) is outside the try: its exception rejects
      \* the then-promise and lands in the catch of line 126
      [] out = "badhex" -> RetryLater(k)
      \* cborDecode / fromCborData throw inside the try (lines 109-124)
      [] out = "nometa" -> [k EXCEPT !.st = "abandoned"]
      \* sourceFetcher.assemble(metadataAddress, callback) (line 112)
      [] OTHER -> [k EXCEPT !.st = "resolving", !.assembles = @ + 1]

\* the getCode promise of candidate i settles; the step records the
\* assemble() calls it made and the retry timers it set
CodeResult(i, out) ==
    /\ i \in 1..Len(cands)
    /\ cands[i].st = "call"
    /\ LET k == [AfterGetCode(cands[i], out) EXCEPT
                    !.code = @ \/ out \notin {"empty", "reject"}] IN
       /\ cands' = SelectSeq([cands EXCEPT ![i] = k], IsLive)
       /\ ev' = Event("getCode", cands[i].c, i, out, NoHeight, NoHeight,
                      k.assembles - cands[i].assembles,
                      IF k.st = "timer" THEN 1 ELSE 0)
    /\ UNCHANGED <<env, lim, misses, chainMonitors, running, getBlockPause, polls,
                   starts, stopped, advanced>>

\* a retry timer fires: processBytecode(address, retriesLeft)
CodeTimer(i) ==
    /\ i \in 1..Len(cands)
    /\ cands[i].st = "timer"
    /\ LET k == processBytecode(cands[i], cands[i].left) IN
       /\ cands' = SelectSeq([cands EXCEPT ![i] = k], IsLive)
       /\ ev' = Event("codeTimer", cands[i].c, i, k.st, NoHeight, NoHeight, 0,
                      IF k.st = "call" THEN 1 ELSE 0)
    /\ UNCHANGED <<env, lim, misses, chainMonitors, running, getBlockPause, polls,
                   starts, stopped, advanced>>

\* the callback given to assemble (lines 112-121): injector.inject is called
Inject(k) ==
    [k EXCEPT !.st = "injecting", !.injects = @ + 1,
              !.injAddress = k.address, !.injChain = k.c]

Deliver(i) ==
    /\ i \in 1..Len(cands)
    /\ SourceFetcherDelivers(cands[i])
    /\ cands' = [cands EXCEPT ![i] = Inject(@)]
    /\ ev' = Event("deliver", cands[i].c, i, "-", NoHeight, NoHeight, 0, 0)
    /\ UNCHANGED <<env, lim, misses, chainMonitors, running, getBlockPause, polls,
                   starts, stopped, advanced>>

\* the inject promise settles (lines 119-120): either way it is only logged
InjectDone(i, out) ==
    /\ i \in 1..Len(cands)
    /\ cands[i].st = "injecting"
    /\ cands' = SelectSeq([cands EXCEPT ![i].st = "done"], IsLive)
    /\ ev' = Event("inject", cands[i].c, i, out, NoHeight, NoHeight, 0, 0)
    /\ UNCHANGED <<env, lim, misses, chainMonitors, running, getBlockPause, polls,
                   starts, stopped, advanced>>

----------------------------------------------------------------------------
(* Monitor.                                                                *)

\* Mutant of MonitorStart: the starts are awaited one after the other, so
\* only the first monitor is started by the call itself.
MonitorStartFirstOnly ==
    LET first == CHOOSE c \in chainMonitors : TRUE IN
    /\ \A c \in chainMonitors : starts[c] < lim.starts
    /\ running' = [running EXCEPT ![first] = TRUE]
    /\ polls' = [polls EXCEPT ![first] = StartPolls(first)]
    /\ starts' = [starts EXCEPT ![first] = @ + 1]
    /\ ev' = Event("Monitor.start", "*", 0, "-", NoHeight, NoHeight, 0, 0)
    /\ UNCHANGED <<env, lim, misses, chainMonitors, getBlockPause, cands, stopped, advanced>>

\* Monitor.start (lines 166-168): forEach(cm => cm.start()); each start()
\* runs to its first await and its promise is dropped
MonitorStart ==
    /\ \A c \in chainMonitors : starts[c] < lim.starts
    /\ running' = [c \in chainMonitors |-> TRUE]
    /\ polls' = [c \in chainMonitors |-> StartPolls(c)]
    /\ starts' = [c \in chainMonitors |-> starts[c] + 1]
    /\ ev' = Event("Monitor.start", "*", 0, "-", NoHeight, NoHeight, 0, 0)
    /\ UNCHANGED <<env, lim, misses, chainMonitors, getBlockPause, cands, stopped, advanced>>

\* Monitor.stop (lines 173-176).  sourceFetcher.stop() touches no state of
\* the chain monitors; deliveries are already free to never happen.
MonitorStop ==
    /\ running' = [c \in chainMonitors |-> FALSE]
    /\ stopped' = [c \in chainMonitors |-> TRUE]
    /\ ev' = Event("Monitor.stop", "*", 0, "-", NoHeight, NoHeight, 0, 0)
    /\ UNCHANGED <<env, lim, misses, chainMonitors, getBlockPause, polls, cands, starts, advanced>>

----------------------------------------------------------------------------
(* Specifications.                                                         *)

\* the provider answers and the timers fire
Provider ==
    \/ \E c \in chainMonitors, id \in 1..lim.starts :
          \/ \E head \in HeadHeights : LookupDone(c, id, head)
          \/ LookupFail(c, id)
          \/ \E out \in BlockOutcomes : BlockResult(c, id, out)
          \/ PollTimer(c, id)
    \/ \E i \in 1..lim.cands :
          \/ \E out \in CodeOutcomes : CodeResult(i, out)
          \/ CodeTimer(i)

\* the source fetcher and the injector answer
Collaborators ==
    \E i \in 1..lim.cands :
        \/ Deliver(i)
        \/ \E out \in {"ok", "failed"} : InjectDone(i, out)

\* one chain monitor, driven through its own start() and stop()
Next ==
    \/ \E c \in chainMonitors : Start(c) \/ Stop(c)
    \/ Provider
    \/ Collaborators

\* the poll loop of one chain monitor
Init ==
    /\ env \in {e \in Envs : e.start["5"] = Undefined /\ e.lower = 2 /\ e.pause # 1}
    /\ lim = [starts |-> MaxStarts + 1, cands |-> MaxCands, height |-> MaxHeight,
              misses |-> MaxMisses]
    /\ InitMonitors({"1"})

Spec == Init /\ [][Next]_vars

\* bytecode retrieval of one chain monitor
InitCode ==
    /\ env \in {e \in Envs : e.start["5"] = Undefined /\ e.lower = 2 /\ e.pause = 4}
    /\ lim = [starts |-> MaxStarts, cands |-> MaxCands + 1, height |-> MaxHeight,
              misses |-> MaxMisses]
    /\ InitMonitors({"1"})

SpecCode == InitCode /\ [][Next]_vars

\* the Monitor over two chains, driven through Monitor.start and Monitor.stop
InitSup ==
    /\ env \in {e \in Envs : e.start["5"] = Undefined /\ e.lower = 2 /\ e.pause = 4
                                /\ e.tries = InitialGetBytecodeTries}
    /\ lim = [starts |-> MaxStarts, cands |-> MaxCands, height |-> MaxHeight,
              misses |-> MaxMisses]
    /\ InitMonitors(Chains)

NextSup == MonitorStart \/ MonitorStop \/ Provider \/ Collaborators

SpecSup == InitSup /\ [][NextSup]_vars

\* one chain monitor whose provider answers every call and whose timers fire
InitLive ==
    /\ env \in {e \in Envs : e.start["5"] = Undefined /\ e.lower = 2 /\ e.pause = 4
                                /\ e.tries = InitialGetBytecodeTries}
    /\ lim = [starts |-> MaxStarts, cands |-> MaxCands, height |-> MaxHeight,
              misses |-> MaxMisses]
    /\ InitMonitors({"1"})

SpecLive == InitLive /\ [][Next]_vars /\ WF_vars(Provider)

\* the adaptive pause of one chain monitor: GET_BLOCK_PAUSE below, within
\* and above the limits
InitPause ==
    /\ env \in {e \in Envs : /\ e.start = [c \in Chains |->
                                    IF c = "1" THEN Str(<<"1", "0", "0">>) ELSE Undefined]
                             /\ e.tries = InitialGetBytecodeTries
                             /\ (e.pause = 1) <=> (e.lower = 4)}
    /\ lim = [starts |-> MaxStarts, cands |-> MaxCands, height |-> MaxHeight,
              misses |-> MaxMisses + 1]
    /\ InitMonitors({"1"})

SpecPause == InitPause /\ [][Next]_vars

\* two chain monitors, each driven through its own start() and stop(): chain
\* 1 with a start height configured, chain 5 beginning at the chain head
InitTwo ==
    /\ env \in {e \in Envs : /\ e.start["1"] = Str(<<"1", "0", "0">>)
                             /\ e.start["5"] = Undefined
                             /\ e.tries = InitialGetBytecodeTries
                             /\ e.pause = 4 /\ e.lower = 2}
    /\ lim = [starts |-> MaxStarts, cands |-> MaxCands, height |-> MaxHeight,
              misses |-> MaxMisses - 2]
    /\ InitMonitors(Chains)

SpecTwo == InitTwo /\ [][Next]_vars

----------------------------------------------------------------------------
(* The claims.                                                             *)

\* tasks of a monitor that will call the provider: polls and bytecode
\* fetches, in flight or on a timer
PollWork(c) == Cardinality({p \in polls[c] : p.st \in {"call", "timer"}})
CodeWork(c) ==
    Cardinality({i \in 1..Len(cands) : cands[i].c = c /\ cands[i].st \in {"call", "timer"}})
Quiescent(c) ==
    /\ polls[c] = {}
    /\ \A i \in 1..Len(cands) : cands[i].c = c => cands[i].st \notin {"call", "timer"}

\* C1: once stop() was called (and start() was not called again), no step
\* of the monitor adds a poll, a bytecode fetch or a retry: a timer that
\* fires may send its own call, but the polls and the fetches pending or in
\* flight never become more; and a second stop() changes nothing.
C1_NoNewWorkAfterStop ==
    [][\A c \in chainMonitors :
          (stopped[c] /\ ~running[c] /\ ~running'[c]) =>
              /\ PollWork(c)' <= PollWork(c)
              /\ CodeWork(c)' <= CodeWork(c)
              /\ ev'.op = "stop" => (polls' = polls /\ cands' = cands)]_vars

\* C2: a poll moves the height on by exactly 1 when the block was retrieved,
\* leaves it as it is on a miss and on a provider error, and never lowers it.
C2_HeightStepsWithBlocks ==
    ev.op = "getBlock" =>
        /\ ev.out \in {"block", "threw"} => ev.next = ev.h + 1
        /\ ev.out \in {"null", "reject"} => ev.next = ev.h
        /\ ev.next >= ev.h

\* C3: the blocks a monitor retrieves come at consecutive heights: a block
\* retrieved is the one right after the last height the monitor advanced
\* past, never one at or below it and never one further on.
C3_ConsecutiveHeights ==
    (ev.op = "getBlock" /\ ev.out \in {"block", "threw"} /\ ev.prev # NoHeight)
        => ev.h = ev.prev + 1

\* C4: lowerLimit <= getBlockPause <= upperLimit in every reachable state;
\* stated here for the states a poll answer leaves, after any sequence of
\* misses, blocks and provider errors.
C4_PauseWithinLimits ==
    ev.op = "getBlock" =>
        /\ RatLeq(RatOf(env.lower), getBlockPause[ev.c])
        /\ RatLeq(getBlockPause[ev.c], RatOf(env.upper))

\* C5: a candidate handed over with retriesLeft = R has at most R getCode
\* calls made for it, each empty or failed answer using up one retry; the
\* timer that fires with no retry left fetches nothing and drops it; with
\* R <= 0 no call is made at all.
C5_AtMostRAttempts ==
    /\ \A i \in 1..Len(cands) :
          /\ cands[i].attempts <= cands[i].r0
          /\ cands[i].st \in {"call", "timer"} =>
                 cands[i].attempts + cands[i].left = cands[i].r0
    /\ (ev.op = "codeTimer" /\ ev.out = "dropped") => ev.calls = 0
    /\ (ev.op = "getBlock" /\ env.tries <= 0) => (ev.calls = 0 /\ cands = <<>>)

\* the candidate's third and last attempt was answered empty and its timer
\* then fired: it was dropped without a fourth call
C5_Witness ==
    /\ env.tries = InitialGetBytecodeTries
    /\ ev.op = "codeTimer" /\ ev.out = "dropped"

\* C6: on a monitor that was started and not stopped, whatever the
\* provider and the collaborators answered, every poll loop begun by a
\* start() still has its poll (or its initial lookup) pending or in flight.
C6_LoopSurvives ==
    \A c \in chainMonitors :
        (starts[c] > 0 /\ ~stopped[c]) =>
            \A id \in 1..starts[c] : \E p \in polls[c] : p.id = id

\* C7: for a candidate whose getCode was answered empty k times and then
\* with bytecode whose metadata decodes, assemble() is called exactly once,
\* and when the artifact is delivered inject() is called exactly once, with
\* the address derived from the transaction and the monitor's chain id.
C7_ResolvedAndInjectedOnce ==
    /\ \A i \in 1..Len(cands) :
          LET k == cands[i] IN
          /\ k.st \in {"call", "timer"} => (k.assembles = 0 /\ k.injects = 0)
          /\ k.st = "resolving" => (k.assembles = 1 /\ k.injects = 0)
          /\ k.st = "injecting" =>
                 /\ k.assembles = 1 /\ k.injects = 1
                 /\ k.injAddress = getContractAddress(k.tx)
                 /\ k.injChain = k.c
    /\ (ev.op = "getCode" /\ ev.out = "valid") => cands[ev.id].st = "resolving"
    /\ ev.op = "deliver" => cands[ev.id].st = "injecting"

\* start height 100 configured, block 100 retrieved, a candidate answered
\* empty twice and then with valid bytecode, its artifact delivered
C7_Witness ==
    /\ env.start["1"] = Str(<<"1", "0", "0">>)
    /\ advanced["1"] = 100
    /\ \E i \in 1..Len(cands) :
          /\ cands[i].st = "injecting" /\ cands[i].attempts = 3
          /\ cands[i].r0 = 3 /\ cands[i].injects = 1

\* the value of a decimal numeral, summed from its last digit
RECURSIVE DecimalValue(_)
DecimalValue(s) ==
    IF s = <<>> THEN 0
    ELSE DecimalValue(SubSeq(s, 1, Len(s) - 1)) * 10 + DigitVal(s[Len(s)])
IsNumeral(s) == s # <<>> /\ \A i \in 1..Len(s) : IsDigit(s[i])

\* what start() and the answer to its lookup leave behind
C8_FirstRequest ==
    /\ ev.op = "start" =>
          LET raw == env.start[ev.c] IN
          IF raw.def /\ IsNumeral(raw.s)
              THEN \E p \in polls[ev.c] :
                       p.id = ev.id /\ p.st = "call" /\ p.h = DecimalValue(raw.s)
              ELSE \E p \in polls[ev.c] : p.id = ev.id /\ p.st = "lookup"
    /\ (ev.op = "lookup" /\ ev.out = "ok") =>
          /\ ~env.start[ev.c].def
          /\ \E p \in polls[ev.c] : p.id = ev.id /\ p.st = "call" /\ p.h = ev.h

\* C8: only start() sets running; with a start height configured the first
\* getBlock of the loop is sent for that height, by start() itself; without
\* one start() sends no getBlock, and the first getBlock is for the height
\* getBlockNumber answered.
C8_FirstHeight ==
    /\ []C8_FirstRequest
    /\ [][\A c \in chainMonitors :
            (~running[c] /\ running'[c]) => ev'.op \in {"start", "Monitor.start"}]_vars

C8_Witness ==
    /\ ev.op = "start"
    /\ env.start[ev.c].def
    /\ \E p \in polls[ev.c] : p.id = ev.id /\ p.st = "call" /\ p.h = 100

\* what Monitor.start() and Monitor.stop() leave behind
C9_Reached ==
    /\ ev.op = "Monitor.start" =>
           \A c \in chainMonitors :
               /\ running[c]
               /\ \E p \in polls[c] : p.id = starts[c] /\ p.st \in {"call", "lookup"}
    /\ ev.op = "Monitor.stop" => \A c \in chainMonitors : ~running[c]
    /\ \A c \in chainMonitors :
           (starts[c] > 0 /\ ~stopped[c] /\ env.start[c].def) =>
               \E p \in polls[c] : p.st \in {"call", "timer"}

\* C9: Monitor.start() starts every chain monitor, whatever becomes of the
\* others' head lookups: each is running with its lookup or first getBlock
\* in flight, and a monitor with a configured start height keeps polling
\* while another's lookup fails or stays unanswered; Monitor.stop() leaves
\* no monitor running.
C9_EveryMonitorReached ==
    /\ []C9_Reached
    /\ [][ev'.op = "lookup" =>
            \A c \in chainMonitors \ {ev'.c} :
                polls'[c] = polls[c] /\ running'[c] = running[c]]_vars

\* the lookup of chain 5 failed; chain 1 has retrieved block 100 and polls on
C9_Witness ==
    /\ ev.op = "lookup" /\ ev.c = "5" /\ ev.out = "reject"
    /\ running["1"] /\ advanced["1"] = 100
    /\ \E p \in polls["1"] : p.st \in {"call", "timer"}

\* C10: stop() leaves every call in flight and every timer where it is,
\* and, the provider answering every call, a stopped monitor gets quiescent
\* (unless it is started again): no timer pending, no call in flight.
C10_QuiescentAfterStop ==
    /\ [][ev'.op = "stop" => (polls' = polls /\ cands' = cands)]_vars
    /\ \A c \in {"1"} :
          (stopped[c] /\ ~running[c]) ~> (Quiescent(c) \/ running[c])

\* stopped with a getCode call in flight: it was answered empty after the
\* stop, no retry was set, and nothing is left
C10_Witness ==
    /\ stopped["1"] /\ ~running["1"] /\ Quiescent("1")
    /\ ev.op = "getCode" /\ ev.out = "empty"

\* C11: start() on a monitor that is running, or that was stopped before,
\* is refused: it begins no poll loop (no lookup, no getBlock) and leaves
\* the running flag as it is.
C11_StartFailsFast ==
    [][\A c \in chainMonitors :
          (ev'.op = "start" /\ ev'.c = c /\ (running[c] \/ stopped[c])) =>
              (polls'[c] = polls[c] /\ running'[c] = running[c])]_vars

\* a * k^n
RECURSIVE Grown(_, _, _)
Grown(a, k, n) == IF n = 0 THEN a ELSE Grown(RatTimes(a, k), k, n - 1)

\* C12: after N "no block yet" answers in a row, begun at pause initialDelay,
\* the pause is min(initialDelay * factor^N, upperLimit), for N = 0 as well;
\* it is never above upperLimit; and the miss reschedules the same height
\* after the grown pause.
C12_DelayAfterMisses ==
    ev.op = "getBlock" =>
        LET c == ev.c
            N == misses[c].n
            initialDelay == misses[c].from
        IN  /\ getBlockPause[c] =
                   MathMin(Grown(initialDelay, env.factor, N), RatOf(env.upper))
            /\ RatLeq(getBlockPause[c], RatOf(env.upper))
            /\ (ev.out = "null" /\ running[c]) =>
                   \E p \in polls[c] :
                       /\ p.id = ev.id /\ p.st = "timer"
                       /\ p.h = ev.h /\ p.d = getBlockPause[c]

\* C13: a block retrieved after misses makes the pause strictly smaller
\* (pause / factor) while it is above lowerLimit and leaves it at lowerLimit
\* once there; the pause is never below lowerLimit and a block never makes
\* it larger.
C13_DelayShrinks ==
    (ev.op = "getBlock" /\ ev.out \in {"block", "threw"} /\ misses[ev.c].seen) =>
        LET before == ev.pause
            after  == getBlockPause[ev.c]
            lowerLimit == RatOf(env.lower)
        IN  /\ RatLeq(lowerLimit, before) /\ RatLeq(lowerLimit, after)
            /\ RatLeq(after, before)
            /\ RatLt(lowerLimit, before) => RatLt(after, before)
            /\ RatLt(RatTimes(lowerLimit, env.factor), before) =>
                   after = RatOver(before, env.factor)

\* C14: a rejected getBlock is a retry that changes nothing: the pause is
\* what it was before the call and the same height is polled again after it.
C14_ErrorKeepsHeightAndDelay ==
    (ev.op = "getBlock" /\ ev.out = "reject") =>
        /\ ev.next = ev.h
        /\ getBlockPause[ev.c] = ev.pause
        /\ running[ev.c] =>
               \E p \in polls[ev.c] :
                   p.id = ev.id /\ p.st = "timer" /\ p.h = ev.h /\ p.d = ev.pause

\* the pause had grown through misses when the getBlock of height 100 failed
C14_Witness ==
    /\ ev.op = "getBlock" /\ ev.out = "reject" /\ running[ev.c] /\ ev.h = 100
    /\ ev.pause = RatOf(8) /\ env.pause = 4 /\ misses[ev.c].from = RatOf(8)
    /\ \E p \in polls[ev.c] : p.st = "timer" /\ p.h = 100 /\ p.d = RatOf(8)

\* C15: a candidate for which getCode has answered with bytecode other than
\* "0x" has no getCode call in flight and no retry timer pending, whatever
\* byte conversion, metadata decoding, resolution and injection did.
C15_NoRetryAfterCode ==
    \A i \in 1..Len(cands) : cands[i].code => cands[i].st \notin {"call", "timer"}

\* the sequence without its i-th element
Without(seq, i) == SubSeq(seq, 1, i - 1) \o SubSeq(seq, i + 1, Len(seq))

\* C16: when the metadata of a candidate's bytecode does not decode, the
\* candidate is abandoned: assemble() is not called, no retry is set, and it
\* never reaches the injector; the polls, the pause and the running flag
\* are left as they are and every other candidate is untouched.
C16_DecodingFailureContained ==
    [][(ev'.op = "getCode" /\ ev'.out = "nometa") =>
          /\ ev'.made = 0 /\ ev'.calls = 0
          /\ cands[ev'.id].assembles = 0 /\ cands[ev'.id].injects = 0
          /\ cands' = Without(cands, ev'.id)
          /\ polls' = polls /\ getBlockPause' = getBlockPause
          /\ running' = running /\ advanced' = advanced]_vars

\* two candidates were fetching; the bytecode of the first did not decode,
\* the other is still fetching and the poll loop is still going
C16_Witness ==
    /\ ev.op = "getCode" /\ ev.out = "nometa" /\ ev.id = 1
    /\ Len(cands) = 1 /\ cands[1].st = "call" /\ cands[1].tx = TxCreate1
    /\ running["1"] /\ \E p \in polls["1"] : p.st \in {"call", "timer"}

\* a transaction without recipient
RecipientAbsent(tx) == tx.to = Null \/ tx.to = ""

\* C17: of a retrieved block exactly the transactions without recipient are
\* dispatched to processBytecode, one candidate each, in the order of the
\* block, each with retriesLeft = INITIAL_GET_BYTECODE_TRIES.
C17_CreationsDispatchedInOrder ==
    (ev.op = "getBlock" /\ ev.out \in {"block", "threw"}) =>
        LET creations == SelectSeq(ev.txs, RecipientAbsent)
            n == Len(creations)
        IN  /\ ev.made = n
            /\ env.tries > 0 =>
                  /\ Len(cands) >= n
                  /\ \A j \in 1..n :
                        LET k == cands[Len(cands) - n + j] IN
                        /\ k.tx = creations[j] /\ k.c = ev.c
                        /\ k.r0 = env.tries /\ k.st = "call" /\ k.attempts = 1

\* the candidates of monitor c, in dispatch order
CandidatesOf(seq, c) == LET Of(k) == k.c = c IN SelectSeq(seq, Of)

\* C18: a step of one chain monitor (start, stop, a lookup or getBlock
\* answer, a poll timer, a getCode answer, a retry timer, a delivery)
\* leaves the running flag, the polls with their heights, the pause and the
\* candidates with their retry counters of every other monitor as they are.
C18_MonitorsIndependent ==
    [][\A c \in chainMonitors :
          (ev'.c \in chainMonitors /\ ev'.c # c) =>
              /\ running'[c] = running[c]
              /\ polls'[c] = polls[c]
              /\ getBlockPause'[c] = getBlockPause[c]
              /\ CandidatesOf(cands', c) = CandidatesOf(cands, c)]_vars

\* a poll of chain 5 found no block and its pause grew, while chain 1 was
\* running at another height and pause with a candidate waiting for a retry
C18_Witness ==
    /\ ev.op = "getBlock" /\ ev.c = "5" /\ ev.out = "null"
    /\ running["1"] /\ getBlockPause["5"] # getBlockPause["1"]
    /\ \E p \in polls["1"] : p.h = 101
    /\ \E i \in 1..Len(cands) :
          cands[i].c = "1" /\ cands[i].st = "timer" /\ cands[i].left = 2

\* C19: a monitor has at most one poll outstanding (getBlock calls in
\* flight plus poll timers pending), whatever start() and stop() calls were
\* made and however timers and answers interleave.
C19_OnePollOutstanding == \A c \in chainMonitors : PollWork(c) <= 1

\* C20: the height moves past h only when every transaction without
\* recipient of block h was dispatched; when the scan of block h throws, the
\* height stays h, the step advances the monitor past nothing, and (while
\* running) the same height is polled again.
C20_FailedScanNotSkipped ==
    ev.op = "getBlock" =>
        /\ ev.next \in {ev.h, ev.h + 1}
        /\ ev.next = ev.h + 1 =>
               ev.made = Len(SelectSeq(ev.txs, RecipientAbsent))
        /\ ev.out = "threw" =>
               /\ ev.next = ev.h
               /\ advanced[ev.c] = ev.prev
               /\ running[ev.c] =>
                      \E p \in polls[ev.c] :
                          p.id = ev.id /\ p.st = "timer" /\ p.h = ev.h

\* block 100 held a creation and then one whose address derivation throws:
\* one candidate was dispatched and height 100 is scheduled again
C20_Witness ==
    /\ ev.op = "getBlock" /\ ev.out = "threw" /\ ev.h = 100
    /\ ev.txs = <<TxCreate0, TxBad>> /\ ev.made = 1
    /\ running[ev.c] /\ \E p \in polls[ev.c] : p.st = "timer" /\ p.h = 100

============================================================================
